---- MODULE Spec2Model ----
(***************************************************************************)
(* A model of adiff (src/adiff.py): the splitter isplit, the Tokenizer and *)
(* its join, the Differ block generator and the line renderers.            *)
(*                                                                         *)
(* Strings are sequences of one-character strings.  The interpreter is     *)
(* Python 3 (the source uses the Python 3 idioms next(it, None),           *)
(* list(map(...)), int(len(x) / 2)), so re.finditer has the Python 3.7+    *)
(* treatment of empty matches and the truth value of a namedtuple is that  *)
(* of a non-empty tuple.                                                   *)
(***************************************************************************)
EXTENDS Integers, Sequences, FiniteSets, TLC

VARIABLES pc, a, b, boundary, ignore_case, reverse, context,
          splits, atoks, btoks, joined, deltas, diff, frame

vars == <<pc, a, b, boundary, ignore_case, reverse, context,
          splits, atoks, btoks, joined, deltas, diff, frame>>

(***************************************************************************)
(* Bounds of the checked instances.                                        *)
(***************************************************************************)
MaxLen == 3

MaxDiffLen == 3

MaxLines == 2

MaxContext == 1

(***************************************************************************)
(* Python values and string helpers.                                       *)
(***************************************************************************)
\* None, and the outcome of a call that raised (a value no token equals)
None == [none |-> TRUE]

AssertionError == [raised |-> "AssertionError"]

IndexError == [raised |-> "IndexError"]

\* Python s[i:j] for 0 <= i, j <= len(s)
Slice(s, i, j) == SubSeq(s, i + 1, j)

\* str.lower() on the letters of the checked alphabets
lower(s) == [k \in 1..Len(s) |-> IF s[k] = "A" THEN "a" ELSE s[k]]

RECURSIVE Concat(_)
\* "".join(ss)
Concat(ss) == IF ss = <<>> THEN <<>> ELSE Head(ss) \o Concat(Tail(ss))

SetMin(S) == CHOOSE x \in S : \A y \in S : x <= y

\* the regex class \s and the regex class \w on the checked alphabets
IsSpace(c) == c \in {" ", "\n"}

IsWord(c) == c \in {"a", "A", "b", "x", "y"}

(***************************************************************************)
(* re.finditer(patt, s).  A pattern is the sequence of its alternatives,   *)
(* each one of: "\\s+", "\\b", "" (the empty pattern), "\\n", or a literal *)
(* character.  A match is <<start, end>>.                                  *)
(***************************************************************************)
RECURSIVE SpaceRunEnd(_, _)
SpaceRunEnd(s, p) ==
    IF p < Len(s) /\ IsSpace(s[p + 1]) THEN SpaceRunEnd(s, p + 1) ELSE p

\* \b matches between a word character and a non-word character or an end
WordBoundary(s, p) ==
    (p > 0 /\ IsWord(s[p])) # (p < Len(s) /\ IsWord(s[p + 1]))

\* end of the match of one alternative at position p, or -1
AtomEnd(atom, s, p) ==
    CASE atom = ""      -> p
      [] atom = "\\b"   -> IF WordBoundary(s, p) THEN p ELSE -1
      [] atom = "\\s+"  -> IF p < Len(s) /\ IsSpace(s[p + 1])
                           THEN SpaceRunEnd(s, p) ELSE -1
      [] atom = "\\n"   -> IF p < Len(s) /\ s[p + 1] = "\n" THEN p + 1 ELSE -1
      [] OTHER          -> IF p < Len(s) /\ s[p + 1] = atom THEN p + 1 ELSE -1

RECURSIVE MatchEnd(_, _, _, _)
\* the alternatives are tried in order; with must_advance an empty match
\* is rejected and the next alternative is tried
MatchEnd(patt, s, p, must_advance) ==
    IF patt = <<>> THEN -1
    ELSE LET e == AtomEnd(Head(patt), s, p)
         IN  IF e # -1 /\ ~(must_advance /\ e = p) THEN e
             ELSE MatchEnd(Tail(patt), s, p, must_advance)

RECURSIVE finditerFrom(_, _, _, _)
\* the scanner: the leftmost match at or after pos; after an empty match the
\* next match may not be empty at the same position
finditerFrom(patt, s, pos, must_advance) ==
    LET hits == {p \in pos..Len(s) :
                    MatchEnd(patt, s, p, must_advance /\ p = pos) # -1}
    IN  IF hits = {} THEN <<>>
        ELSE LET p == SetMin(hits)
                 e == MatchEnd(patt, s, p, must_advance /\ p = pos)
             IN  <<<<p, e>>>> \o finditerFrom(patt, s, e, e = p)

finditer(patt, s) == finditerFrom(patt, s, 0, FALSE)

(***************************************************************************)
(* isplit(patt, s): the list of the pieces the generator yields.           *)
(***************************************************************************)
RECURSIVE SkipToNonZeroWidth(_, _)
\* lines 89-92: while nextm and m.start() == m.end() == nextm.start()
SkipToNonZeroWidth(ms, k) ==
    IF k + 1 <= Len(ms) /\ ms[k][1] = ms[k][2] /\ ms[k][2] = ms[k + 1][1]
    THEN SkipToNonZeroWidth(ms, k + 1)
    ELSE k

RECURSIVE isplitLoop_noskip(_, _, _, _, _)
\* variant of isplitLoop without the "if ... continue" of lines 84-87
isplitLoop_noskip(s, ms, k, mEnd, acc) ==
    IF k > Len(ms)
    THEN Append(acc, Slice(s, mEnd, Len(s)))
    ELSE LET k2 == SkipToNonZeroWidth(ms, k)
             m2 == ms[k2]
             content == Slice(s, mEnd, m2[1])
         IN  IF m2[1] = Len(s)
             THEN Append(acc, content)
             ELSE isplitLoop_noskip(s, ms, k2 + 1, m2[2],
                                    acc \o <<content, Slice(s, m2[1], m2[2])>>)

RECURSIVE isplitLoop(_, _, _, _, _)
\* ms: the matches; k: the index of nextm (beyond Len(ms): nextm is None);
\* mEnd: m.end() of the current m; acc: the pieces yielded so far
isplitLoop(s, ms, k, mEnd, acc) ==
    IF k > Len(ms)
    THEN Append(acc, Slice(s, mEnd, Len(s)))
    ELSE LET prevEnd == mEnd
             m == ms[k]
         IN  IF m[1] = m[2] /\ m[2] = prevEnd
             THEN isplitLoop(s, ms, k + 1, m[2], acc)
             ELSE LET k2 == SkipToNonZeroWidth(ms, k)
                      m2 == ms[k2]
                      content == Slice(s, prevEnd, m2[1])
                  IN  IF m2[1] = Len(s)
                      THEN Append(acc, content)
                      ELSE isplitLoop(s, ms, k2 + 1, m2[2],
                                      acc \o <<content, Slice(s, m2[1], m2[2])>>)

isplit(patt, s) == isplitLoop(s, finditer(patt, s), 1, 0, <<>>)

(***************************************************************************)
(* Tokenizer                                                               *)
(***************************************************************************)
Token(word, sep, idx) == [word |-> word, sep |-> sep, idx |-> idx]

\* Token.__str__
TokStr(t) == t.word \o t.sep

\* variant of TokenizerTokens with the test of line 135 inverted
TokenizerTokens_inverted(sp) ==
    LET even == IF sp = <<>> THEN sp
                ELSE IF sp[Len(sp)] = <<>> THEN Append(sp, <<>>)
                ELSE SubSeq(sp, 1, Len(sp) - 1)
    IN  [k \in 1..(Len(even) \div 2) |->
            Token(even[2 * k - 1], even[2 * k], k - 1)]

\* Tokenizer.__init__: the token list built from the splits
TokenizerTokens(sp) ==
    LET even == IF sp = <<>> THEN sp
                ELSE IF sp[Len(sp)] # <<>> THEN Append(sp, <<>>)
                ELSE SubSeq(sp, 1, Len(sp) - 1)
    IN  [k \in 1..(Len(even) \div 2) |->
            Token(even[2 * k - 1], even[2 * k], k - 1)]

Tokenizer(s, patt) == TokenizerTokens(isplit(patt, s))

\* variant of join that takes the separator of the first token of the range
join_firstsep(toks, first, limit) ==
    IF ~(0 <= first /\ first <= Len(toks)) THEN AssertionError
    ELSE IF ~(first <= limit /\ limit <= Len(toks)) THEN AssertionError
    ELSE LET last == limit - 1
         IN  IF last < first THEN None
             ELSE IF last = first THEN toks[first + 1]
             ELSE Token(Concat([k \in 1..(last - first) |->
                                   TokStr(toks[first + k])])
                          \o toks[last + 1].word,
                        toks[first + 1].sep,
                        first)

\* variant of join whose second assertion (line 158) does not bound limit
join_nolimit(toks, first, limit) ==
    IF ~(0 <= first /\ first <= Len(toks)) THEN AssertionError
    ELSE IF ~(first <= limit) THEN AssertionError
    ELSE LET last == limit - 1
         IN  IF last < first THEN None
             ELSE IF limit > Len(toks) THEN IndexError
             ELSE IF last = first THEN toks[first + 1]
             ELSE Token(Concat([k \in 1..(last - first) |->
                                   TokStr(toks[first + k])])
                          \o toks[last + 1].word,
                        toks[last + 1].sep,
                        first)

\* Tokenizer.join(first, limit) on the token list toks
join(toks, first, limit) ==
    IF ~(0 <= first /\ first <= Len(toks)) THEN AssertionError
    ELSE IF ~(first <= limit /\ limit <= Len(toks)) THEN AssertionError
    ELSE LET last == limit - 1
         IN  IF last < first THEN None
             ELSE IF last = first THEN toks[first + 1]
             ELSE IF toks[first + 1].idx # first THEN AssertionError
             ELSE Token(Concat([k \in 1..(last - first) |->
                                   TokStr(toks[first + k])])
                          \o toks[last + 1].word,
                        toks[last + 1].sep,
                        first)

(***************************************************************************)
(* difflib.SequenceMatcher(None, xs, ys).get_matching_blocks(), as used by *)
(* Differ.  Inputs of fewer than 200 elements: the autojunk heuristic of   *)
(* the library is not in play, and there is no junk.                       *)
(***************************************************************************)
RECURSIVE RunLen(_, _, _, _, _, _)
\* the length of the run of equal elements from xs[i] and ys[j] (0-based)
RunLen(xs, ys, i, j, ahi, bhi) ==
    IF i < ahi /\ j < bhi /\ xs[i + 1] = ys[j + 1]
    THEN 1 + RunLen(xs, ys, i + 1, j + 1, ahi, bhi)
    ELSE 0

SetMax(S) == CHOOSE x \in S : \A y \in S : x >= y

\* the longest matching run in xs[alo:ahi], ys[blo:bhi]; of the longest ones
\* the one starting earliest in xs, and of those the earliest in ys
find_longest_match(xs, ys, alo, ahi, blo, bhi) ==
    LET size(i, j) == RunLen(xs, ys, i, j, ahi, bhi)
        best == SetMax({0} \cup {size(i, j) : i \in alo..(ahi - 1),
                                              j \in blo..(bhi - 1)})
    IN  IF best = 0 THEN <<alo, blo, 0>>
        ELSE LET besti == SetMin({i \in alo..(ahi - 1) :
                                     \E j \in blo..(bhi - 1) : size(i, j) = best})
                 bestj == SetMin({j \in blo..(bhi - 1) : size(besti, j) = best})
             IN  <<besti, bestj, best>>

RECURSIVE MatchingRuns(_, _, _, _, _, _)
\* the longest match, then recursively the matches to its left and right
MatchingRuns(xs, ys, alo, ahi, blo, bhi) ==
    LET x == find_longest_match(xs, ys, alo, ahi, blo, bhi)
        i == x[1]
        j == x[2]
        k == x[3]
    IN  IF k = 0 THEN <<>>
        ELSE (IF alo < i /\ blo < j
              THEN MatchingRuns(xs, ys, alo, i, blo, j) ELSE <<>>)
             \o <<x>>
             \o (IF i + k < ahi /\ j + k < bhi
                 THEN MatchingRuns(xs, ys, i + k, ahi, j + k, bhi) ELSE <<>>)

RECURSIVE CollapseAdjacent(_, _)
\* adjacent runs are merged; cur is the run being grown
CollapseAdjacent(runs, cur) ==
    IF runs = <<>> THEN (IF cur[3] > 0 THEN <<cur>> ELSE <<>>)
    ELSE LET x == Head(runs)
         IN  IF cur[1] + cur[3] = x[1] /\ cur[2] + cur[3] = x[2]
             THEN CollapseAdjacent(Tail(runs), <<cur[1], cur[2], cur[3] + x[3]>>)
             ELSE (IF cur[3] > 0 THEN <<cur>> ELSE <<>>)
                  \o CollapseAdjacent(Tail(runs), x)

\* the matching blocks, ending with the dummy <<len(xs), len(ys), 0>>
get_matching_blocks(xs, ys) ==
    Append(CollapseAdjacent(MatchingRuns(xs, ys, 0, Len(xs), 0, Len(ys)),
                            <<0, 0, 0>>),
           <<Len(xs), Len(ys), 0>>)

(***************************************************************************)
(* Differ                                                                  *)
(***************************************************************************)
Delta(op, lhs, rhs) == [op |-> op, lhs |-> lhs, rhs |-> rhs]

\* the truth value of the result of join: None is false; a Token is a tuple
\* of three fields, which Python 3 takes as true whatever the fields are
\* (Token.__nonzero__ of line 122 is not consulted)
bool(x) == x # None

\* Differ.__init__: the two word lists handed to the SequenceMatcher
seqm_words(toks, fold) ==
    [k \in 1..Len(toks) |-> IF fold THEN lower(toks[k].word) ELSE toks[k].word]

\* variant of DiffDelta with left-only and right-only exchanged
DiffDelta_swapped(at, bt, curi, curj, i, j) ==
    LET lhs == join(at, curi, i)
        rhs == join(bt, curj, j)
        op == IF bool(lhs) /\ bool(rhs) THEN "d"
              ELSE IF bool(lhs) THEN "r"
              ELSE IF bool(rhs) THEN "l" ELSE ""
    IN  IF op # ""
        THEN <<Delta(op,
                     IF bool(lhs) THEN lhs ELSE Token(<<>>, <<>>, i - 1),
                     IF bool(rhs) THEN rhs ELSE Token(<<>>, <<>>, j - 1))>>
        ELSE <<>>

\* lines 215-225: the difference that precedes the match at i, j, if any
DiffDelta(at, bt, curi, curj, i, j) ==
    LET lhs == join(at, curi, i)
        rhs == join(bt, curj, j)
        op == IF bool(lhs) /\ bool(rhs) THEN "d"
              ELSE IF bool(lhs) THEN "l"
              ELSE IF bool(rhs) THEN "r" ELSE ""
    IN  IF op # ""
        THEN <<Delta(op,
                     IF bool(lhs) THEN lhs ELSE Token(<<>>, <<>>, i - 1),
                     IF bool(rhs) THEN rhs ELSE Token(<<>>, <<>>, j - 1))>>
        ELSE <<>>

\* variant of CommonDelta that takes the left token for both sides
CommonDelta_lhsonly(at, bt, i, j, n) ==
    IF n > 0
    THEN <<Delta("c", join(at, i, i + n), join(at, i, i + n))>>
    ELSE <<>>

\* lines 226-229: the matching block itself
CommonDelta(at, bt, i, j, n) ==
    IF n > 0
    THEN <<Delta("c", join(at, i, i + n), join(bt, j, j + n))>>
    ELSE <<>>

RECURSIVE blocksLoop(_, _, _, _, _)
\* lines 209-230: the loop over the matching blocks mbs
blocksLoop(at, bt, mbs, curi, curj) ==
    IF mbs = <<>> THEN <<>>
    ELSE LET i == Head(mbs)[1]
             j == Head(mbs)[2]
             n == Head(mbs)[3]
         IN  DiffDelta(at, bt, curi, curj, i, j)
             \o CommonDelta(at, bt, i, j, n)
             \o blocksLoop(at, bt, Tail(mbs), i + n, j + n)

\* list(Differ.blocks()) for the tokenizers at, bt
blocks(at, bt, fold) ==
    blocksLoop(at, bt,
               get_matching_blocks(seqm_words(at, fold), seqm_words(bt, fold)),
               0, 0)

(***************************************************************************)
(* LineDiffer                                                              *)
(***************************************************************************)
\* countlines(s) for a string s
countlines(s) ==
    Cardinality({k \in 1..Len(s) : s[k] = "\n"})
        + (IF s # <<>> /\ s[Len(s)] # "\n" THEN 1 ELSE 0)

\* the text one block contributes to the left and to the right line input
\* (lines 243-254)
ReducedPiece(d, side, rev) ==
    CASE d.op = "c" -> IF rev THEN TokStr(d.rhs) ELSE TokStr(d.lhs)
      [] d.op = "l" -> IF side = "lhs" THEN TokStr(d.lhs) ELSE <<>>
      [] d.op = "r" -> IF side = "rhs" THEN TokStr(d.rhs) ELSE <<>>
      [] OTHER      -> (IF side = "lhs" THEN d.lhs.word ELSE d.rhs.word)
                          \o (IF rev THEN d.rhs.sep ELSE d.lhs.sep)

\* LineDiffer.__init__: the line input of one side
LineInput(lhs, rhs, patt, rev, fold, side) ==
    IF patt # <<"\\n">>
    THEN LET ds == blocks(Tokenizer(lhs, patt), Tokenizer(rhs, patt), fold)
         IN  Concat([k \in 1..Len(ds) |-> ReducedPiece(ds[k], side, rev)])
    ELSE IF side = "lhs" THEN lhs ELSE rhs

\* the indicator _addnl appends (line 270)
NoNewline ==
    <<"\n", "\\", " ", "N", "o", " ", "n", "e", "w", "l", "i", "n", "e", " ",
      "a", "t", " ", "e", "n", "d", " ", "o", "f", " ", "f", "i", "l", "e",
      "\n">>

\* LineDiffer._addnl
addnl(s) ==
    IF s # <<>> /\ s[Len(s)] = "\n" THEN s ELSE s \o NoNewline

\* re.sub(r"(?m)^", s, word): s goes before the first character and after
\* every newline
sub_linestart(s, word) ==
    s \o Concat([k \in 1..Len(word) |->
                    IF word[k] = "\n" THEN <<"\n">> \o s ELSE <<word[k]>>])

\* LineDiffer._preface
preface(s, tok) == addnl(sub_linestart(s, tok.word) \o tok.sep)

\* "%d" % n
Digits == <<"0", "1", "2", "3", "4", "5", "6", "7", "8", "9">>

RECURSIVE NatStr(_)
NatStr(n) ==
    IF n < 10 THEN <<Digits[n + 1]>>
    ELSE Append(NatStr(n \div 10), Digits[(n % 10) + 1])

IntStr(n) == IF n < 0 THEN <<"-">> \o NatStr(0 - n) ELSE NatStr(n)

(***************************************************************************)
(* ContextDiffer                                                           *)
(***************************************************************************)
\* s.split("\n"): the pieces between the newlines of s, cut(i) being the
\* position of the i-th newline
SplitNewline(s) ==
    LET nls == {k \in 1..Len(s) : s[k] = "\n"}
        cut(i) == IF i = 0 THEN 0
                  ELSE IF i > Cardinality(nls) THEN Len(s) + 1
                  ELSE CHOOSE k \in nls : Cardinality({m \in nls : m <= k}) = i
    IN  [i \in 1..(Cardinality(nls) + 1) |->
            SubSeq(s, cut(i - 1) + 1, cut(i) - 1)]

\* s.splitlines(False): no empty last line after a final newline
splitlines(s) ==
    LET parts == SplitNewline(s)
    IN  IF parts[Len(parts)] = <<>> THEN SubSeq(parts, 1, Len(parts) - 1)
        ELSE parts

RECURSIVE JoinNewline(_)
\* "\n".join(ls)
JoinNewline(ls) ==
    IF ls = <<>> THEN <<>>
    ELSE IF Len(ls) = 1 THEN ls[1]
    ELSE ls[1] \o <<"\n">> \o JoinNewline(Tail(ls))

\* ls[:n] for n >= 0
HeadSlice(ls, n) == SubSeq(ls, 1, IF n < Len(ls) THEN n ELSE Len(ls))

\* ls[-n:] for n >= 0; ls[-0:] is ls[0:], the whole list
TailSlice(ls, n) ==
    IF n = 0 \/ n >= Len(ls) THEN ls
    ELSE SubSeq(ls, Len(ls) - n + 1, Len(ls))

\* _trim with the limit of an outer block for an inner block as well
trim_noinner(delta, dir, inner, C) ==
    IF delta.op # "c" THEN [delta |-> AssertionError, trimmed |-> FALSE]
    ELSE LET lines == countlines(TokStr(delta.lhs))
         IN  IF lines <= (IF inner THEN C ELSE C)
             THEN [delta |-> delta, trimmed |-> FALSE]
             ELSE LET word == IF dir = "head"
                              THEN JoinNewline(HeadSlice(splitlines(delta.lhs.word), C))
                              ELSE JoinNewline(TailSlice(splitlines(delta.lhs.word), C))
                      adjust_idx == IF dir = "head" THEN 0 ELSE lines - C
                  IN  [delta |-> Delta("c",
                                       Token(word, delta.lhs.sep,
                                             delta.lhs.idx + adjust_idx),
                                       Token(word, delta.rhs.sep,
                                             delta.rhs.idx + adjust_idx)),
                       trimmed |-> TRUE]

\* ContextDiffer._trim(delta, dir, inner) with self.context = C
trim(delta, dir, inner, C) ==
    IF delta.op # "c" THEN [delta |-> AssertionError, trimmed |-> FALSE]
    ELSE LET lines == countlines(TokStr(delta.lhs))
         IN  IF lines <= (IF inner THEN C * 2 ELSE C)
             THEN [delta |-> delta, trimmed |-> FALSE]
             ELSE LET word == IF dir = "head"
                              THEN JoinNewline(HeadSlice(splitlines(delta.lhs.word), C))
                              ELSE JoinNewline(TailSlice(splitlines(delta.lhs.word), C))
                      adjust_idx == IF dir = "head" THEN 0 ELSE lines - C
                  IN  [delta |-> Delta("c",
                                       Token(word, delta.lhs.sep,
                                             delta.lhs.idx + adjust_idx),
                                       Token(word, delta.rhs.sep,
                                             delta.rhs.idx + adjust_idx)),
                       trimmed |-> TRUE]

\* next(blocki, None) when blocki has already returned pos elements of ds
NextBlock(ds, pos) == IF pos < Len(ds) THEN ds[pos + 1] ELSE None

RECURSIVE HunkLoop(_, _, _, _, _)
\* lines 334-346: the inner loop; pos counts the blocks taken from blocki.
\* The result is the hunk and the values of before, next_delta and pos at
\* the end of the loop.
HunkLoop(ds, C, next_delta, pos, acc) ==
    IF next_delta = None
    THEN [blocks |-> acc, before |-> NextBlock(ds, pos - 2),
          next_delta |-> None, pos |-> pos]
    ELSE LET delta == next_delta
             after == NextBlock(ds, pos)
             nd == NextBlock(ds, pos + 1)
             acc1 == Append(acc, delta)
         IN  IF after # None
             THEN LET tr == trim(after, "head", nd # None, C)
                  IN  IF tr.trimmed
                      THEN [blocks |-> Append(acc1, tr.delta), before |-> after,
                            next_delta |-> nd, pos |-> pos + 2]
                      ELSE HunkLoop(ds, C, nd, pos + 2, Append(acc1, tr.delta))
             ELSE [blocks |-> acc1, before |-> None,
                   next_delta |-> None, pos |-> pos + 2]

RECURSIVE HunksFrom(_, _, _, _, _)
\* lines 329-347: the outer loop
HunksFrom(ds, C, before, next_delta, pos) ==
    IF next_delta = None THEN <<>>
    ELSE LET first == IF before # None
                      THEN <<trim(before, "tail", FALSE, C).delta>>
                      ELSE <<>>
             h == HunkLoop(ds, C, next_delta, pos, first)
         IN  <<h.blocks>> \o HunksFrom(ds, C, h.before, h.next_delta, h.pos)

\* list(ContextDiffer.context_blocks()) over the block list ds
context_blocks(ds, C) ==
    LET first == NextBlock(ds, 0)
    IN  IF first # None /\ first.op = "c"
        THEN HunksFrom(ds, C, first, NextBlock(ds, 1), 2)
        ELSE HunksFrom(ds, C, None, first, 1)

SideTok(d, side) == IF side = "lhs" THEN d.lhs ELSE d.rhs

RECURSIVE SumSeq(_)
SumSeq(ns) == IF ns = <<>> THEN 0 ELSE Head(ns) + SumSeq(Tail(ns))

\* the count of lines 352 and 394
SideCount(bs, side) ==
    SumSeq([k \in 1..Len(bs) |-> countlines(TokStr(SideTok(bs[k], side)))])

\* ContextDiffer._linerange
ContextLinerange(bs, side) ==
    LET idx == SideTok(bs[1], side).idx
        count == SideCount(bs, side)
    IN  IntStr(idx + 1)
            \o (IF count > 1 THEN <<",">> \o IntStr(idx + count) ELSE <<>>)

\* ContextDiffer._hunk
ContextHunk(bs, side) ==
    LET own == IF side = "lhs" THEN "l" ELSE "r"
        sign == IF side = "lhs" THEN <<"-", " ">> ELSE <<"+", " ">>
    IN  IF ~\E k \in 1..Len(bs) : bs[k].op = own \/ bs[k].op = "d"
        THEN <<>>
        ELSE Concat([k \in 1..Len(bs) |->
                 IF bs[k].op = "c" THEN preface(<<" ", " ">>, bs[k].lhs)
                 ELSE IF bs[k].op = "d"
                      THEN preface(<<"!", " ">>, SideTok(bs[k], side))
                 ELSE IF bs[k].op = own
                      THEN preface(sign, SideTok(bs[k], side))
                 ELSE <<>>])

\* list(ContextDiffer.hunks())
ContextHunks(ds, C) ==
    LET hs == context_blocks(ds, C)
    IN  [h \in 1..Len(hs) |->
            <<"*", "*", "*", "*", "*", "*", "*", "*", "*", "*", "*", "*",
              "*", "*", "*", "\n", "*", "*", "*", " ">>
                \o ContextLinerange(hs[h], "lhs")
                \o <<" ", "*", "*", "*", "*", "\n">>
                \o ContextHunk(hs[h], "lhs")
                \o <<"-", "-", "-", " ">>
                \o ContextLinerange(hs[h], "rhs")
                \o <<" ", "-", "-", "-", "-", "\n">>
                \o ContextHunk(hs[h], "rhs")]

(***************************************************************************)
(* UnifiedDiffer                                                           *)
(***************************************************************************)
\* UnifiedDiffer._linerange
UnifiedLinerange(bs, side) ==
    LET idx == SideTok(bs[1], side).idx
        count == SideCount(bs, side)
    IN  IntStr(idx + 1)
            \o (IF count > 1 THEN <<",">> \o IntStr(count) ELSE <<>>)

\* UnifiedDiffer._hunk
UnifiedHunk(bs) ==
    Concat([k \in 1..Len(bs) |->
        IF bs[k].op = "c" THEN preface(<<" ">>, bs[k].lhs)
        ELSE IF bs[k].op = "l" THEN preface(<<"-">>, bs[k].lhs)
        ELSE IF bs[k].op = "r" THEN preface(<<"+">>, bs[k].rhs)
        ELSE preface(<<"-">>, bs[k].lhs) \o preface(<<"+">>, bs[k].rhs)])

\* list(UnifiedDiffer.hunks())
UnifiedHunks(ds, C) ==
    LET hs == context_blocks(ds, C)
    IN  [h \in 1..Len(hs) |->
            <<"@", "@", " ", "-">>
                \o UnifiedLinerange(hs[h], "lhs")
                \o <<" ", "+">>
                \o UnifiedLinerange(hs[h], "rhs")
                \o <<" ", "@", "@", "\n">>
                \o UnifiedHunk(hs[h])]

(***************************************************************************)
(* NormalDiffer                                                            *)
(***************************************************************************)
\* NormalDiffer._linerange
NormalLinerange(tok) ==
    LET count == countlines(tok.word)
    IN  IntStr(tok.idx + 1)
            \o (IF count > 1 THEN <<",">> \o IntStr(tok.idx + count) ELSE <<>>)

\* variant of Changes that does not skip the common blocks
Changes_all(ds) == ds

\* the blocks NormalDiffer.hunks() does not skip
Changes(ds) == SelectSeq(ds, LAMBDA d : d.op # "c")

\* lines 438-453: the hunk of one block that is not common
NormalHunk(d) ==
    NormalLinerange(d.lhs)
        \o <<IF d.op = "l" THEN "d" ELSE IF d.op = "r" THEN "a" ELSE "c">>
        \o NormalLinerange(d.rhs)
        \o <<"\n">>
        \o (IF bool(d.lhs)
            THEN preface(<<"<", " ">>, d.lhs)
                    \o (IF bool(d.rhs) THEN <<"-", "-", "-", "\n">> ELSE <<>>)
            ELSE <<>>)
        \o (IF bool(d.rhs) THEN preface(<<">", " ">>, d.rhs) ELSE <<>>)

\* list(NormalDiffer.hunks())
NormalHunks(ds) ==
    LET cs == Changes(ds) IN [h \in 1..Len(cs) |-> NormalHunk(cs[h])]

(***************************************************************************)
(* Inputs of the checked instances.                                        *)
(***************************************************************************)
RECURSIVE StringsOver(_, _)
\* the strings over the alphabet of length at most n
StringsOver(alphabet, n) ==
    IF n = 0 THEN {<<>>}
    ELSE LET shorter == StringsOver(alphabet, n - 1)
         IN  shorter \cup {Append(s, c) : s \in shorter, c \in alphabet}

TokAlphabet == {"a", " ", "\n"}

Patterns == { <<"\\s+">>, <<"\\n">>, <<"">>, <<"\\b">>,
              <<"\\s+", "\\b">>, <<"\\b", "\\s+">>, <<" ">>, <<"a">> }

NoJoin == [first |-> 0, limit |-> 0, result |-> None, called |-> FALSE]

\* no call of context_blocks() has been made
NoFrame == [pos |-> 0, before |-> None, next_delta |-> None,
            blocks |-> <<>>, yielded |-> <<>>]

(***************************************************************************)
(* The splitter and the Tokenizer on one input.                            *)
(***************************************************************************)
InitTok ==
    /\ pc = "start"
    /\ a \in StringsOver(TokAlphabet, MaxLen)
    /\ b = <<>>
    /\ boundary \in Patterns
    /\ ignore_case = FALSE
    /\ reverse = FALSE
    /\ context = 0
    /\ splits = <<>>
    /\ atoks = <<>>
    /\ btoks = <<>>
    /\ joined = NoJoin
    /\ deltas = <<>>
    /\ diff = <<>>
    /\ frame = NoFrame

\* list(isplit(boundary, a))
Isplit ==
    /\ pc = "start"
    /\ splits' = isplit(boundary, a)
    /\ pc' = "split"
    /\ UNCHANGED <<frame, a, b, boundary, ignore_case, reverse, context,
                   atoks, btoks, joined, deltas, diff>>

\* Tokenizer(a, boundary)
TokenizerInit ==
    /\ pc = "start"
    /\ atoks' = Tokenizer(a, boundary)
    /\ pc' = "tokens"
    /\ UNCHANGED <<frame, a, b, boundary, ignore_case, reverse, context,
                   splits, btoks, joined, deltas, diff>>

\* t.join(first, limit); a failed assertion returns nothing
Join ==
    /\ pc = "tokens"
    /\ \E first \in -1..(Len(atoks) + 1), limit \in -1..(Len(atoks) + 1) :
          joined' = [first |-> first, limit |-> limit,
                     result |-> join(atoks, first, limit), called |-> TRUE]
    /\ UNCHANGED <<frame, pc, a, b, boundary, ignore_case, reverse, context,
                   splits, atoks, btoks, deltas, diff>>

NextTok == Isplit \/ TokenizerInit \/ Join

SpecTok == InitTok /\ [][NextTok]_vars

(***************************************************************************)
(* The Differ on two inputs.                                               *)
(***************************************************************************)
DiffAlphabet == {"a", "A", " ", "\n"}

DiffPatterns == { <<"\\s+">>, <<"\\n">> }

Init ==
    /\ pc = "start"
    /\ a \in StringsOver(DiffAlphabet, MaxDiffLen)
    /\ b \in StringsOver(DiffAlphabet, MaxDiffLen)
    /\ boundary \in DiffPatterns
    /\ ignore_case \in BOOLEAN
    /\ reverse = FALSE
    /\ context = 0
    /\ splits = <<>>
    /\ atoks = <<>>
    /\ btoks = <<>>
    /\ joined = NoJoin
    /\ deltas = <<>>
    /\ diff = <<>>
    /\ frame = NoFrame

\* Differ(a, b, boundary, ignore_case)
DifferInit ==
    /\ pc = "start"
    /\ atoks' = Tokenizer(a, boundary)
    /\ btoks' = Tokenizer(b, boundary)
    /\ pc' = "differ"
    /\ UNCHANGED <<frame, a, b, boundary, ignore_case, reverse, context,
                   splits, joined, deltas, diff>>

\* list(differ.blocks())
Blocks ==
    /\ pc = "differ"
    /\ deltas' = blocks(atoks, btoks, ignore_case)
    /\ pc' = "blocks"
    /\ UNCHANGED <<frame, a, b, boundary, ignore_case, reverse, context,
                   splits, atoks, btoks, joined, diff>>

Next == DifferInit \/ Blocks

Spec == Init /\ [][Next]_vars

(***************************************************************************)
(* The line differs on two inputs.                                         *)
(***************************************************************************)
LineWords == { <<"x">>, <<"y">>, <<>> }

\* the texts of at most n lines, with and without the final newline
LineTexts(n) ==
    LET texts == {Concat([k \in 1..Len(ls) |-> ls[k] \o <<"\n">>]) :
                     ls \in StringsOver(LineWords, n)}
    IN  texts \cup {SubSeq(s, 1, Len(s) - 1) : s \in texts \ {<<>>}}

LinePatterns == { <<"\\n">>, <<"\\s+">> }

InitLine ==
    /\ pc = "start"
    /\ a \in LineTexts(MaxLines)
    /\ b \in LineTexts(MaxLines)
    /\ boundary \in LinePatterns
    /\ ignore_case = FALSE
    /\ reverse \in (IF boundary = <<"\\n">> THEN {FALSE} ELSE BOOLEAN)
    /\ context = 0
    /\ splits = <<>>
    /\ atoks = <<>>
    /\ btoks = <<>>
    /\ joined = NoJoin
    /\ deltas = <<>>
    /\ diff = <<>>
    /\ frame = NoFrame

\* LineDiffer.__init__(lhs, rhs, boundary, reverse, ignore_case)
LineDifferInit ==
    /\ atoks' = Tokenizer(LineInput(a, b, boundary, reverse, ignore_case, "lhs"),
                          <<"\\n">>)
    /\ btoks' = Tokenizer(LineInput(a, b, boundary, reverse, ignore_case, "rhs"),
                          <<"\\n">>)
    /\ UNCHANGED <<frame, a, b, boundary, ignore_case, reverse,
                   splits, joined, deltas, diff>>

\* NormalDiffer(a, b, boundary, reverse)
NormalDifferInit ==
    /\ pc = "start"
    /\ LineDifferInit
    /\ pc' = "NormalDiffer"
    /\ UNCHANGED context

\* ContextDiffer(a, b, boundary, reverse, context)
ContextDifferInit ==
    /\ pc = "start"
    /\ \E C \in 0..MaxContext : context' = C
    /\ LineDifferInit
    /\ pc' = "ContextDiffer"

\* UnifiedDiffer(a, b, boundary, reverse, context)
UnifiedDifferInit ==
    /\ pc = "start"
    /\ \E C \in 0..MaxContext : context' = C
    /\ LineDifferInit
    /\ pc' = "UnifiedDiffer"

\* NormalDiffer.get_diff(): diff is the list of the hunks, which get_diff
\* concatenates, and deltas the blocks they were made from
NormalGetDiff ==
    /\ pc = "NormalDiffer"
    /\ deltas' = blocks(atoks, btoks, ignore_case)
    /\ diff' = NormalHunks(blocks(atoks, btoks, ignore_case))
    /\ pc' = "normal"
    /\ UNCHANGED <<frame, a, b, boundary, ignore_case, reverse, context,
                   splits, atoks, btoks, joined>>

\* ContextDiffer.get_diff()
ContextGetDiff ==
    /\ pc = "ContextDiffer"
    /\ deltas' = blocks(atoks, btoks, ignore_case)
    /\ diff' = ContextHunks(blocks(atoks, btoks, ignore_case), context)
    /\ pc' = "context"
    /\ UNCHANGED <<frame, a, b, boundary, ignore_case, reverse, context,
                   splits, atoks, btoks, joined>>

\* UnifiedDiffer.get_diff()
UnifiedGetDiff ==
    /\ pc = "UnifiedDiffer"
    /\ deltas' = blocks(atoks, btoks, ignore_case)
    /\ diff' = UnifiedHunks(blocks(atoks, btoks, ignore_case), context)
    /\ pc' = "unified"
    /\ UNCHANGED <<frame, a, b, boundary, ignore_case, reverse, context,
                   splits, atoks, btoks, joined>>

NextLine ==
    \/ NormalDifferInit
    \/ ContextDifferInit
    \/ UnifiedDifferInit
    \/ NormalGetDiff
    \/ ContextGetDiff
    \/ UnifiedGetDiff

SpecLine == InitLine /\ [][NextLine]_vars

(***************************************************************************)
(* The generator context_blocks(), one step at a time.  frame holds its    *)
(* locals: pos is the number of blocks blocki has returned, blocks the     *)
(* hunk being built and yielded the hunks yielded so far.                  *)
(***************************************************************************)
\* every input has at most 2 * MaxContext + 3 lines, so that two changes
\* can have more than 2 * MaxContext common lines between them
ShapeLen == 2 * MaxContext + 3

\* a shape says line by line what the inputs hold: a line of both ("c"),
\* a line of the left input only ("l") or of the right input only ("r")
Shapes == StringsOver({"c", "l", "r"}, ShapeLen)

ShapeText(s, side) ==
    Concat([k \in 1..Len(s) |->
               IF s[k] = "c" THEN <<"c", "\n">>
               ELSE IF s[k] = "l" /\ side = "lhs" THEN <<"x", "\n">>
               ELSE IF s[k] = "r" /\ side = "rhs" THEN <<"y", "\n">>
               ELSE <<>>])

InitHunks ==
    /\ pc = "start"
    /\ \E s \in Shapes : a = ShapeText(s, "lhs") /\ b = ShapeText(s, "rhs")
    /\ boundary = <<"\\n">>
    /\ ignore_case = FALSE
    /\ reverse = FALSE
    /\ context = 0
    /\ splits = <<>>
    /\ atoks = <<>>
    /\ btoks = <<>>
    /\ joined = NoJoin
    /\ deltas = <<>>
    /\ diff = <<>>
    /\ frame = NoFrame

\* lines 321-327: the frame when the outer loop is reached first
EnterFrame(ds) ==
    LET first == NextBlock(ds, 0)
    IN  IF first # None /\ first.op = "c"
        THEN [pos |-> 2, before |-> first, next_delta |-> NextBlock(ds, 1),
              blocks |-> <<>>, yielded |-> <<>>]
        ELSE [pos |-> 1, before |-> None, next_delta |-> first,
              blocks |-> <<>>, yielded |-> <<>>]

\* lines 330-333: a new hunk, which starts with the tail of before
OuterStep(f, C) ==
    IF f.before # None
    THEN LET tr == trim(f.before, "tail", FALSE, C)
         IN  [f EXCEPT !.before = tr.delta, !.blocks = <<tr.delta>>]
    ELSE [f EXCEPT !.blocks = <<>>]

\* the inner loop without line 340, blocks.append(delta)
InnerStep_noappend(f, ds, C) ==
    LET after == NextBlock(ds, f.pos)
        nd == NextBlock(ds, f.pos + 1)
        tr == trim(after, "head", nd # None, C)
    IN  [frame |-> [f EXCEPT !.pos = f.pos + 2, !.before = after,
                             !.next_delta = nd,
                             !.blocks = IF after # None
                                        THEN Append(f.blocks, tr.delta)
                                        ELSE f.blocks],
         break |-> after # None /\ tr.trimmed]

\* lines 335-346: one iteration of the inner loop, and whether it breaks
InnerStep(f, ds, C) ==
    LET delta == f.next_delta
        after == NextBlock(ds, f.pos)
        nd == NextBlock(ds, f.pos + 1)
        tr == trim(after, "head", nd # None, C)
        blocks1 == Append(f.blocks, delta)
    IN  [frame |-> [f EXCEPT !.pos = f.pos + 2, !.before = after,
                             !.next_delta = nd,
                             !.blocks = IF after # None
                                        THEN Append(blocks1, tr.delta)
                                        ELSE blocks1],
         break |-> after # None /\ tr.trimmed]

\* the first next() on context_blocks(), up to the outer loop
CbCall ==
    /\ pc \in {"ContextDiffer", "UnifiedDiffer"}
    /\ deltas' = blocks(atoks, btoks, ignore_case)
    /\ frame' = EnterFrame(blocks(atoks, btoks, ignore_case))
    /\ pc' = "cb_while"
    /\ UNCHANGED <<a, b, boundary, ignore_case, reverse, context,
                   splits, atoks, btoks, joined, diff>>

\* line 329: the test of the outer loop, and lines 330-333 when it holds
CbOuter ==
    /\ pc = "cb_while"
    /\ IF frame.next_delta = None
       THEN /\ pc' = "cb_return"
            /\ UNCHANGED frame
       ELSE /\ pc' = "cb_inner"
            /\ frame' = OuterStep(frame, context)
    /\ UNCHANGED <<a, b, boundary, ignore_case, reverse, context,
                   splits, atoks, btoks, joined, deltas, diff>>

\* line 334: the test of the inner loop, and lines 335-346 when it holds
CbInner ==
    /\ pc = "cb_inner"
    /\ IF frame.next_delta = None
       THEN /\ pc' = "cb_yield"
            /\ UNCHANGED frame
       ELSE LET step == InnerStep(frame, deltas, context)
            IN  /\ frame' = step.frame
                /\ pc' = IF step.break THEN "cb_yield" ELSE "cb_inner"
    /\ UNCHANGED <<a, b, boundary, ignore_case, reverse, context,
                   splits, atoks, btoks, joined, deltas, diff>>

\* line 347: yield blocks
CbYield ==
    /\ pc = "cb_yield"
    /\ frame' = [frame EXCEPT !.yielded = Append(frame.yielded, frame.blocks)]
    /\ pc' = "cb_while"
    /\ UNCHANGED <<a, b, boundary, ignore_case, reverse, context,
                   splits, atoks, btoks, joined, deltas, diff>>

NextHunks ==
    \/ ContextDifferInit
    \/ UnifiedDifferInit
    \/ CbCall
    \/ CbOuter
    \/ CbInner
    \/ CbYield

\* once context_blocks() has been entered, the loop of hunks() asks for its
\* next hunk until it returns
SpecHunks ==
    InitHunks /\ [][NextHunks]_vars /\ WF_vars(CbOuter \/ CbInner \/ CbYield)

\* the generator run to its end is the list context_blocks(deltas, context)
FrameAgrees ==
    pc = "cb_return" => frame.yielded = context_blocks(deltas, context)

(***************************************************************************)
(* Properties of the splitter and the Tokenizer.                           *)
(***************************************************************************)
\* the concatenation of word + sep of the tokens toks[first+1..limit]
TokensText(toks, first, limit) ==
    Concat([k \in 1..(limit - first) |-> TokStr(toks[first + k])])

\* C1: the concatenation of word + sep over the tokens of Tokenizer(s,
\* boundary), in order, is s; the empty input has no tokens.
C1_Reconstruction ==
    pc = "tokens" =>
        /\ TokensText(atoks, 0, Len(atoks)) = a
        /\ (a = <<>> => atoks = <<>>)
        /\ \A k \in 1..Len(atoks) : atoks[k].idx = k - 1

\* a tokenization with a zero-width boundary between two words
C1_Witness ==
    /\ pc = "tokens"
    /\ Len(atoks) >= 2
    /\ \E k \in 1..(Len(atoks) - 1) : atoks[k].sep = <<>>

\* the offset of piece k of the splits in the input
PieceOffset(sp, k) == Len(Concat(SubSeq(sp, 1, k - 1)))

\* C8: isplit yields an odd number of pieces, content and separator
\* alternating, every separator piece being a match of the pattern at its
\* place in the input; a single empty piece for the empty input; an empty
\* content piece is never followed by an empty separator.
C8_IsplitAlternates ==
    pc = "split" =>
        /\ Len(splits) % 2 = 1
        /\ Concat(splits) = a
        /\ \A k \in 1..Len(splits) :
              k % 2 = 0 =>
                 <<PieceOffset(splits, k), PieceOffset(splits, k + 1)>>
                    \in {finditer(boundary, a)[n] :
                            n \in 1..Len(finditer(boundary, a))}
        /\ (a = <<>> => splits = << <<>> >>)
        /\ \A k \in 1..(Len(splits) - 1) :
              k % 2 = 1 => ~(splits[k] = <<>> /\ splits[k + 1] = <<>>)

\* a split in which a zero-width match at the start of the string was
\* skipped and a later zero-width match was yielded
C8_Witness ==
    /\ pc = "split"
    /\ Len(finditer(boundary, a)) >= 2
    /\ finditer(boundary, a)[1] = <<0, 0>>
    /\ \E k \in 1..Len(splits) : k % 2 = 0 /\ splits[k] = <<>>

\* C6: join(first, limit) for 0 <= first <= limit <= n is None for the
\* empty range, the stored token for a range of one, and otherwise a token
\* with idx first, the sep of token limit-1 and word + sep equal to the
\* concatenation of word + sep of the tokens first..limit-1.
C6_JoinRange ==
    (/\ pc = "tokens"
     /\ joined.called
     /\ 0 <= joined.first
     /\ joined.first <= joined.limit
     /\ joined.limit <= Len(atoks)) =>
        LET first == joined.first
            limit == joined.limit
            r == joined.result
        IN  /\ (first = limit) <=> (r = None)
            /\ limit = first + 1 => r = atoks[first + 1]
            /\ limit > first + 1 =>
                  /\ r \notin {None, AssertionError}
                  /\ r.idx = first
                  /\ r.sep = atoks[limit].sep
                  /\ TokStr(r) = TokensText(atoks, first, limit)

\* a join of two or more tokens whose separators differ
C6_Witness ==
    /\ pc = "tokens"
    /\ joined.called
    /\ 0 <= joined.first
    /\ joined.limit >= joined.first + 2
    /\ joined.limit <= Len(atoks)
    /\ atoks[joined.first + 1].sep # atoks[joined.limit].sep

\* C7: join(first, limit) fails with an assertion error when first < 0,
\* first > n, limit > n or limit < first, and the tokens stay as built.
C7_JoinAsserts ==
    (/\ pc = "tokens"
     /\ joined.called
     /\ \/ joined.first < 0
        \/ joined.first > Len(atoks)
        \/ joined.limit > Len(atoks)
        \/ joined.limit < joined.first) =>
        /\ joined.result = AssertionError
        /\ atoks = Tokenizer(a, boundary)

\* join(0, 1) on the tokenizer of the empty input
C7_Witness ==
    /\ pc = "tokens"
    /\ a = <<>>
    /\ joined.called
    /\ joined.first = 0
    /\ joined.limit = 1
    /\ joined.result = AssertionError

(***************************************************************************)
(* Properties of the block sequence of Differ.blocks().                    *)
(***************************************************************************)
\* the concatenation of word + sep of one side of the blocks
SideText(ds, side) ==
    Concat([k \in 1..Len(ds) |->
               IF side = "lhs" THEN TokStr(ds[k].lhs) ELSE TokStr(ds[k].rhs)])

HasOp(ds, op) == \E k \in 1..Len(ds) : ds[k].op = op

\* C2: the lhs sides of the blocks, concatenated in order, are the left
\* input and the rhs sides are the right input.
C2_Coverage ==
    pc = "blocks" =>
        /\ SideText(deltas, "lhs") = a
        /\ SideText(deltas, "rhs") = b

\* an alignment with a common block whose separators differ and a
\* one-sided block
C2_Witness ==
    /\ pc = "blocks"
    /\ \E k \in 1..Len(deltas) :
          deltas[k].op = "c" /\ deltas[k].lhs.sep # deltas[k].rhs.sep
    /\ HasOp(deltas, "l") \/ HasOp(deltas, "r")

\* the block sequence with the sides and the one-sided labels exchanged
Swap(ds) ==
    [k \in 1..Len(ds) |->
        Delta(CASE ds[k].op = "l" -> "r"
                [] ds[k].op = "r" -> "l"
                [] OTHER -> ds[k].op,
              ds[k].rhs, ds[k].lhs)]

Mirror(mbs) == [k \in 1..Len(mbs) |-> <<mbs[k][2], mbs[k][1], mbs[k][3]>>]

Occurrences(xs, w) == Cardinality({k \in 1..Len(xs) : xs[k] = w})

\* every word the two lists share occurs once in each, and the shared
\* words are in the same order in both
SharedOnceInOrder(xs, ys) ==
    LET shared == {xs[k] : k \in 1..Len(xs)} \cap {ys[k] : k \in 1..Len(ys)}
        IsShared(w) == w \in shared
    IN  /\ \A w \in shared : Occurrences(xs, w) = 1 /\ Occurrences(ys, w) = 1
        /\ SelectSeq(xs, IsShared) = SelectSeq(ys, IsShared)

\* the statement of C4 as the claim has it: the exchanged block sequence of
\* Differ(a, b) is the block sequence of Differ(b, a)
C4_SymmetryAlways ==
    pc = "blocks" => Swap(deltas) = blocks(btoks, atoks, ignore_case)

\* C4 (amended): the exchanged block sequence of Differ(a, b) is the block
\* sequence of Differ(b, a) whenever the matching blocks found for (b, a)
\* mirror those found for (a, b), which is the case when every word the
\* inputs share occurs once in each and in the same order in both.
C4_SymmetryWhenMirrored ==
    pc = "blocks" =>
        LET wa == seqm_words(atoks, ignore_case)
            wb == seqm_words(btoks, ignore_case)
            mirrored == Mirror(get_matching_blocks(wa, wb))
                           = get_matching_blocks(wb, wa)
        IN  /\ mirrored => Swap(deltas) = blocks(btoks, atoks, ignore_case)
            /\ SharedOnceInOrder(wa, wb) => mirrored

\* shared words once and in order, with a common block whose separators
\* differ and a one-sided block
C4_Witness ==
    /\ pc = "blocks"
    /\ SharedOnceInOrder(seqm_words(atoks, ignore_case),
                         seqm_words(btoks, ignore_case))
    /\ \E k \in 1..Len(deltas) :
          deltas[k].op = "c" /\ deltas[k].lhs.sep # deltas[k].rhs.sep
    /\ HasOp(deltas, "l") \/ HasOp(deltas, "r")

IsPlaceholder(t) == t.word = <<>> /\ t.sep = <<>>

\* the parts of C9 about the blocks that are not common
OneSidedWellFormed(d) ==
    /\ d.op = "l" => TokStr(d.lhs) # <<>> /\ IsPlaceholder(d.rhs)
    /\ d.op = "r" => TokStr(d.rhs) # <<>> /\ IsPlaceholder(d.lhs)
    /\ d.op = "d" => TokStr(d.lhs) # <<>> /\ TokStr(d.rhs) # <<>>
    /\ d.op \in {"l", "r", "d", "c"}

Rendered == pc \in {"normal", "context", "unified"}

\* the lines of a rendered text, without their newlines
Lines(text) ==
    LET parts == SplitNewline(text)
    IN  IF parts[Len(parts)] = <<>> THEN SubSeq(parts, 1, Len(parts) - 1)
        ELSE parts

HasPrefix(line, pre) ==
    Len(line) >= Len(pre) /\ SubSeq(line, 1, Len(pre)) = pre

\* the line "\ No newline at end of file"
MarkerLine == SubSeq(NoNewline, 2, Len(NoNewline) - 1)

\* a single common block whose sides are the whole line inputs
OneCommonBlock(ds, at, bt) ==
    /\ Len(ds) = 1
    /\ ds[1].op = "c"
    /\ TokStr(ds[1].lhs) = TokensText(at, 0, Len(at))
    /\ TokStr(ds[1].rhs) = TokensText(bt, 0, Len(bt))

\* the blocks of the Differ on the raw inputs with the boundary of the state
RawTokens(s) == Tokenizer(s, boundary)

\* the statement of C3 as the claim has it: diffing an input against itself
\* yields exactly one block, common, and empty rendered diffs
C3_SelfDiffOneBlock ==
    (Rendered /\ a = b) =>
        /\ OneCommonBlock(deltas, atoks, btoks)
        /\ Concat(diff) = <<>>

\* C3 (amended): diffing a non-empty input against itself yields exactly
\* one block, common, covering the whole input, and diffing the empty input
\* against itself yields no block; in both cases the Normal, Context and
\* Unified get_diff() results are the empty string.
C3_SelfDiff ==
    (Rendered /\ a = b) =>
        /\ a # <<>> =>
              /\ OneCommonBlock(deltas, atoks, btoks)
              /\ TokStr(deltas[1].lhs) = a
              /\ OneCommonBlock(blocks(RawTokens(a), RawTokens(b), ignore_case),
                                RawTokens(a), RawTokens(b))
        /\ a = <<>> =>
              /\ deltas = <<>>
              /\ blocks(RawTokens(a), RawTokens(b), ignore_case) = <<>>
        /\ diff = <<>>
        /\ Concat(diff) = <<>>

\* an input of two lines or more diffed against itself
C3_Witness ==
    /\ Rendered
    /\ a = b
    /\ Len(atoks) >= 2
    /\ Len(deltas) = 1

\* the blocks each hunk of the rendered diff was made from
HunkBlocks ==
    IF pc = "normal"
    THEN [h \in 1..Len(Changes(deltas)) |-> <<Changes(deltas)[h]>>]
    ELSE context_blocks(deltas, context)

SideTokens(side) == IF side = "lhs" THEN atoks ELSE btoks

LacksFinalNewline(s) == s # <<>> /\ s[Len(s)] # "\n"

\* the side of block d holds the final line of the input of that side
CoversFinalLine(d, side) ==
    LET tok == SideTok(d, side)
    IN  /\ TokStr(tok) # <<>>
        /\ tok.idx + countlines(TokStr(tok)) = Len(SideTokens(side))

\* block d of the hunk bs is rendered among the lines of the side
RenderedFor(bs, d, side) ==
    LET own == IF side = "lhs" THEN "l" ELSE "r"
        changed == \E k \in 1..Len(bs) : bs[k].op \in {own, "d"}
    IN  CASE pc = "normal"  -> d.op \in {own, "d"}
          [] pc = "unified" -> d.op \in {own, "d", "c"}
          [] OTHER          -> d.op \in {own, "d", "c"} /\ changed

\* the numbers of the lines of a hunk text that show lines of the side
SideLineNumbers(ls, side) ==
    CASE pc = "normal" ->
            {k \in 1..Len(ls) :
                HasPrefix(ls[k], IF side = "lhs" THEN <<"<", " ">>
                                 ELSE <<">", " ">>)}
      [] pc = "unified" ->
            {k \in 1..Len(ls) :
                \/ HasPrefix(ls[k], <<" ">>)
                \/ HasPrefix(ls[k], IF side = "lhs" THEN <<"-">> ELSE <<"+">>)}
      [] OTHER ->
            LET mid == CHOOSE k \in 1..Len(ls) :
                           HasPrefix(ls[k], <<"-", "-", "-", " ">>)
            IN  {k \in 1..Len(ls) :
                    /\ ls[k] # MarkerLine
                    /\ IF side = "lhs" THEN 2 < k /\ k < mid ELSE mid < k}

\* the last line shown for the side in the hunk text is followed by the
\* marker line
MarkerAfterLastLine(text, side) ==
    LET ls == Lines(text)
        shown == SideLineNumbers(ls, side)
    IN  /\ shown # {}
        /\ SetMax(shown) < Len(ls)
        /\ ls[SetMax(shown) + 1] = MarkerLine

\* C5: when the lines a hunk renders for one side include the final line of
\* that side's input and the input does not end with a newline, the
\* rendered final line is followed by the line "\ No newline at end of
\* file"; for each side independently, common blocks included.
C5_NoNewlineMarker ==
    Rendered =>
        \A h \in 1..Len(diff) : \A side \in {"lhs", "rhs"} :
            (/\ LacksFinalNewline(TokensText(SideTokens(side), 0,
                                             Len(SideTokens(side))))
             /\ \E k \in 1..Len(HunkBlocks[h]) :
                   /\ RenderedFor(HunkBlocks[h], HunkBlocks[h][k], side)
                   /\ CoversFinalLine(HunkBlocks[h][k], side))
            => MarkerAfterLastLine(diff[h], side)

\* C10: the hunk the Normal renderer emits for a block that is not common
\* has "< " lines exactly if the block has lhs content, "> " lines exactly
\* if it has rhs content, and the "---" line exactly if it has both.
C10_NormalSides ==
    pc = "normal" =>
        \A h \in 1..Len(diff) :
            LET d == Changes(deltas)[h]
                ls == Lines(diff[h])
                has(pre) == \E k \in 1..Len(ls) : HasPrefix(ls[k], pre)
            IN  /\ has(<<"<", " ">>) <=> TokStr(d.lhs) # <<>>
                /\ has(<<">", " ">>) <=> TokStr(d.rhs) # <<>>
                /\ (\E k \in 1..Len(ls) : ls[k] = <<"-", "-", "-">>)
                      <=> (TokStr(d.lhs) # <<>> /\ TokStr(d.rhs) # <<>>)

(***************************************************************************)
(* Properties of the line ranges of the Normal hunks.                      *)
(***************************************************************************)
\* the position in the block list ds of its n-th block that is not common
ChangeIndex(ds, n) ==
    CHOOSE k \in 1..Len(ds) :
        /\ ds[k].op # "c"
        /\ Cardinality({m \in 1..k : ds[m].op # "c"}) = n

\* the number of lines of the side in the blocks before block k of ds
LinesBefore(ds, k, side) == SideCount(SubSeq(ds, 1, k - 1), side)

\* the one-based inclusive range of cnt lines that follow before lines, and
\* for no lines the number of the line before them
InclusiveRange(before, cnt) ==
    IF cnt = 0 THEN IntStr(before)
    ELSE IntStr(before + 1)
            \o (IF cnt > 1 THEN <<",">> \o IntStr(before + cnt) ELSE <<>>)

\* C11: the header of the Normal hunk of a block that is not common is
\* <lhs range><op><rhs range>, each range one-based and inclusive over
\* exactly the lines of that side in the block (empty lines included), and
\* for an absent side the number of the line before the change.
C11_NormalRanges ==
    pc = "normal" =>
        \A h \in 1..Len(diff) :
            LET k == ChangeIndex(deltas, h)
                d == deltas[k]
                range(side) ==
                    InclusiveRange(LinesBefore(deltas, k, side),
                                   countlines(TokStr(SideTok(d, side))))
            IN  Lines(diff[h])[1] =
                    range("lhs")
                       \o <<IF d.op = "l" THEN "d"
                            ELSE IF d.op = "r" THEN "a" ELSE "c">>
                       \o range("rhs")

(***************************************************************************)
(* Properties of the hunk assembly context_blocks().                       *)
(***************************************************************************)
\* block d is one of the blocks of hunk bs
InHunk(bs, d) == \E j \in 1..Len(bs) : bs[j] = d

\* C12: two consecutive changes are in the same hunk if and only if the
\* common block between them has at most 2 * context lines, and then that
\* block stands whole between them; with more lines the first change is the
\* last one of its hunk and the second the first one of the next hunk.
C12_HunkBoundaries ==
    pc = "cb_return" =>
        \A k \in 1..Len(deltas) :
            (k + 2 <= Len(deltas) /\ deltas[k].op # "c"
                /\ deltas[k + 1].op = "c" /\ deltas[k + 2].op # "c") =>
            LET hs == frame.yielded
                n == countlines(TokStr(deltas[k + 1].lhs))
                together == \E h \in 1..Len(hs) :
                                InHunk(hs[h], deltas[k])
                                    /\ InHunk(hs[h], deltas[k + 2])
            IN  /\ together <=> n <= 2 * context
                /\ n <= 2 * context =>
                      \E h \in 1..Len(hs) : \E j \in 1..Len(hs[h]) :
                          /\ j + 2 <= Len(hs[h])
                          /\ SubSeq(hs[h], j, j + 2) = SubSeq(deltas, k, k + 2)
                /\ n > 2 * context =>
                      \E h \in 1..Len(hs) :
                          /\ h + 1 <= Len(hs)
                          /\ Changes(hs[h])[Len(Changes(hs[h]))] = deltas[k]
                          /\ Changes(hs[h + 1])[1] = deltas[k + 2]

\* context 1: a hunk with two changes around two common lines, the most
\* that keeps them together
C12_Witness ==
    /\ pc = "cb_return"
    /\ context = 1
    /\ \E h \in 1..Len(frame.yielded) :
          \E j \in 1..Len(frame.yielded[h]) :
              /\ j + 2 <= Len(frame.yielded[h])
              /\ frame.yielded[h][j].op # "c"
              /\ frame.yielded[h][j + 1].op = "c"
              /\ countlines(TokStr(frame.yielded[h][j + 1].lhs)) = 2
              /\ frame.yielded[h][j + 2].op # "c"

\* context 1: two changes around three common lines, in two hunks
C12_WitnessSplit ==
    /\ pc = "cb_return"
    /\ context = 1
    /\ Len(frame.yielded) = 2
    /\ \E k \in 1..Len(deltas) :
          deltas[k].op = "c" /\ countlines(TokStr(deltas[k].lhs)) = 3

\* C15: context_blocks() returns, and the blocks that are not common are,
\* in the order of the stream, the blocks that are not common of the hunks
\* yielded, each in one hunk and once; every hunk has such a block.
C15_HunksKeepChanges ==
    /\ (pc = "cb_while") ~> (pc = "cb_return")
    /\ [](pc = "cb_return" =>
             /\ Changes(Concat(frame.yielded)) = Changes(deltas)
             /\ \A h \in 1..Len(frame.yielded) :
                    Changes(frame.yielded[h]) # <<>>)

\* three changes in more than one hunk
C15_Witness ==
    /\ pc = "cb_return"
    /\ Len(Changes(deltas)) >= 3
    /\ Len(frame.yielded) >= 2

(***************************************************************************)
(* Properties of the Context and Unified hunks.  A hunk holds the changes  *)
(* FirstChange(h) to LastChange(h) of the block list, the common blocks    *)
(* between them, and at most context lines of the common block before and  *)
(* of the common block after them.                                         *)
(***************************************************************************)
Min(m, n) == IF m < n THEN m ELSE n

ChangesBefore(h) ==
    SumSeq([j \in 1..(h - 1) |-> Len(Changes(HunkBlocks[j]))])

FirstChange(h) == ChangeIndex(deltas, ChangesBefore(h) + 1)

LastChange(h) == ChangeIndex(deltas, ChangesBefore(h + 1))

\* the lines of the side the hunk shows before its first change
LeadLines(h, side) ==
    IF FirstChange(h) = 1 THEN 0
    ELSE Min(context,
             countlines(TokStr(SideTok(deltas[FirstChange(h) - 1], side))))

\* the lines of the side the hunk shows after its last change
TrailLines(h, side) ==
    IF LastChange(h) = Len(deltas) THEN 0
    ELSE Min(context,
             countlines(TokStr(SideTok(deltas[LastChange(h) + 1], side))))

\* the lines of the side in the hunk are the lines HunkStart, ...,
\* HunkStart + HunkCount - 1 of that side, counted from one
HunkStart(h, side) ==
    LinesBefore(deltas, FirstChange(h), side) - LeadLines(h, side) + 1

HunkCount(h, side) ==
    LeadLines(h, side)
        + SideCount(SubSeq(deltas, FirstChange(h), LastChange(h)), side)
        + TrailLines(h, side)

\* s.split(" ")
Fields(s) ==
    LET sps == {k \in 1..Len(s) : s[k] = " "}
        cut(i) == IF i = 0 THEN 0
                  ELSE IF i > Cardinality(sps) THEN Len(s) + 1
                  ELSE CHOOSE k \in sps : Cardinality({m \in sps : m <= k}) = i
    IN  [i \in 1..(Cardinality(sps) + 1) |->
            SubSeq(s, cut(i - 1) + 1, cut(i) - 1)]

\* the range the header of a hunk text prints for the side: "@@ -R +R @@"
\* in a Unified hunk, "*** R ****" and "--- R ----" in a Context hunk
HeaderRange(text, side) ==
    LET ls == Lines(text)
    IN  IF pc = "unified"
        THEN Tail(Fields(ls[1])[IF side = "lhs" THEN 2 ELSE 3])
        ELSE IF side = "lhs" THEN Fields(ls[2])[2]
        ELSE Fields(ls[CHOOSE k \in 3..Len(ls) :
                           /\ HasPrefix(ls[k], <<"-", "-", "-", " ">>)
                           /\ \A m \in 3..(k - 1) :
                                 ~HasPrefix(ls[m], <<"-", "-", "-", " ">>)])[2]

HasSuffix(s, suf) ==
    Len(s) >= Len(suf) /\ SubSeq(s, Len(s) - Len(suf) + 1, Len(s)) = suf

\* C13: the range a Context or Unified hunk header prints for a side starts
\* at the one-based number of the first line of that side in the hunk,
\* whatever block the hunk begins with; the Unified range gives the count
\* of the lines of the side, left out exactly if it is 1, and the Context
\* range the number of the last line, left out exactly for a single line.
C13_HunkRanges ==
    pc \in {"context", "unified"} =>
        \A h \in 1..Len(diff) : \A side \in {"lhs", "rhs"} :
            LET start == HunkStart(h, side)
                count == HunkCount(h, side)
                range == HeaderRange(diff[h], side)
            IN  /\ (count >= 1 /\ pc = "unified") =>
                      range = IntStr(start)
                                 \o (IF count = 1 THEN <<>>
                                     ELSE <<",">> \o IntStr(count))
                /\ (count >= 1 /\ pc = "context") =>
                      range = IntStr(start)
                                 \o (IF count = 1 THEN <<>>
                                     ELSE <<",">> \o IntStr(start + count - 1))
                /\ (count = 0 /\ pc = "unified") =>
                      HasSuffix(range, <<",", "0">>)

\* the lines of side of the blocks k of the hunk bs that satisfy keep(k)
BlockLines(bs, side, keep(_)) ==
    Concat([k \in 1..Len(bs) |->
               IF keep(k) THEN Lines(TokStr(SideTok(bs[k], side))) ELSE <<>>])

\* the positions in the hunk bs of its blocks that are not common
ChangedAt(bs) == {k \in 1..Len(bs) : bs[k].op # "c"}

\* C14: the lines a hunk holds before its first change are the last
\* min(context, n) lines of the n-line common block before that change in
\* the block list, and the lines it holds after its last change the first
\* min(context, n) lines of the common block after it: never more than
\* context lines, and none with context 0.
C14_OuterContext ==
    pc \in {"context", "unified"} =>
        \A h \in 1..Len(diff) : \A side \in {"lhs", "rhs"} :
            LET bs == HunkBlocks[h]
                first == FirstChange(h)
                last == LastChange(h)
                before == IF first = 1 THEN <<>>
                          ELSE Lines(TokStr(SideTok(deltas[first - 1], side)))
                after == IF last = Len(deltas) THEN <<>>
                         ELSE Lines(TokStr(SideTok(deltas[last + 1], side)))
                lead == BlockLines(bs, side, LAMBDA k : k < SetMin(ChangedAt(bs)))
                trail == BlockLines(bs, side, LAMBDA k : k > SetMax(ChangedAt(bs)))
            IN  /\ lead = SubSeq(before,
                                 Len(before) - Min(context, Len(before)) + 1,
                                 Len(before))
                /\ trail = SubSeq(after, 1, Min(context, Len(after)))

\* the hunk holds the final line of the input of the side
HoldsFinalLine(h, side) ==
    /\ HunkCount(h, side) >= 1
    /\ HunkStart(h, side) + HunkCount(h, side) - 1 = Len(SideTokens(side))

\* C16: in a Normal, Context or Unified hunk the line "\ No newline at end
\* of file" stands only directly after the last line shown for a side whose
\* input does not end with a newline and whose final line the hunk holds;
\* so not after a trailing context block trimmed to lines before the final
\* one.
C16_MarkerOnlyAtEnd ==
    Rendered =>
        \A h \in 1..Len(diff) :
            LET ls == Lines(diff[h])
            IN  \A k \in 1..Len(ls) :
                    ls[k] = MarkerLine =>
                        \E side \in {"lhs", "rhs"} :
                            /\ LacksFinalNewline(
                                   TokensText(SideTokens(side), 0,
                                              Len(SideTokens(side))))
                            /\ HoldsFinalLine(h, side)
                            /\ SideLineNumbers(ls, side) # {}
                            /\ k - 1 = SetMax(SideLineNumbers(ls, side))

====
